---- MODULE Spec2Model ----
(***************************************************************************)
(* Heartbeat liveness detector (HbFsm) of src/src/pulse.rs.                *)
(*                                                                         *)
(* The detector is one record, hb_fsm, with the fields of struct HbFsm.    *)
(* Tick counts are unsigned machine words; the model keeps the modular     *)
(* arithmetic of u64 on words of Bits bits (2^Bits values, half range      *)
(* 2^(Bits-1)), so that wraparound and the age-validity threshold are      *)
(* reachable.                                                              *)
(*                                                                         *)
(* Four specifications share the variables:                                *)
(*   Spec      one caller: new, then any sequence of init and step calls,  *)
(*             each call one atomic action;                                *)
(*   SpecStab  one caller driving step under the stability premise;        *)
(*   SpecConc  several threads calling step on one shared instance, each   *)
(*             access to a field of the instance one atomic action;        *)
(*   SpecHist  one caller as in Spec, with the instance before the last    *)
(*             call kept beside the instance after it.                     *)
(***************************************************************************)
EXTENDS Integers, FiniteSets

\* Width of a tick count in bits (u64 in the source, scaled down).
Bits == 3

\* Number of threads that share the instance, and step calls each one makes.
NumThreads == 2
MaxCalls == 2

Modulus == 2 ^ Bits
Half == 2 ^ (Bits - 1)

\* Every value of a tick count.
Times == 0 .. (Modulus - 1)

\* wait_bound arguments: the least and the greatest.
Waits == {0, Modulus - 1}

\* Timeout arguments: the least, the greatest, and the ones around the half
\* range, where the age-validity threshold and the timeout meet.
Timeouts == {0, 1, Half - 1, Half, Modulus - 1}
Threads == 1 .. NumThreads

\* enum State, enum Hb
State == {"Unknown", "Alive", "Dead"}
Hb == {"NotSeen", "Seen"}

VARIABLES
    hb_fsm,     \* the HbFsm instance
    call,       \* the last call a single caller made: its name and arguments
    last_seen,  \* stability driver: now of the most recent Seen step, or NoTime
    pc,         \* per thread: the line of step it is about to execute
    frame,      \* per thread: the arguments and locals of its step call
    calls,      \* per thread: the step calls it has started
    before      \* recording caller: the instance as it was before the last call

vars == <<hb_fsm, call, last_seen, pc, frame, calls, before>>

NoTime == 0 - 1

----------------------------------------------------------------------------
\* Faulty variant of age_u64: a saturating subtraction.
age_u64_saturating(now, then) == IF now >= then THEN now - then ELSE 0

\* HbFsm::age_u64: now.wrapping_sub(then)
age_u64(now, then) == (now - then) % Modulus

\* Faulty variant of age_valid: half the range itself taken as valid.
age_valid_inclusive(age) == age <= Half

\* HbFsm::age_valid: age < (1 << 63)
age_valid(age) == age < Half

\* HbFsm::faulted
faulted(m) == m.fault_time \/ m.fault_reentry

\* HbFsm::new
new(now) ==
    [ state         |-> "Unknown",
      t_init        |-> now,
      last_hb       |-> 0,
      have_hb       |-> FALSE,
      fault_time    |-> FALSE,
      fault_reentry |-> FALSE,
      in_step       |-> FALSE ]

\* Faulty variant of init: the fault flags left as they were.
init_keepsFaults(m, now) ==
    [ m EXCEPT !.state = "Unknown",
               !.t_init = now,
               !.last_hb = 0,
               !.have_hb = FALSE,
               !.in_step = FALSE ]

\* HbFsm::init: every field is assigned, whatever m held
init(m, now) ==
    [ m EXCEPT !.state = "Unknown",
               !.t_init = now,
               !.last_hb = 0,
               !.have_hb = FALSE,
               !.fault_time = FALSE,
               !.fault_reentry = FALSE,
               !.in_step = FALSE ]

\* Faulty variants of Verdict: the timeout widened by one tick, and the
\* comparison made non-strict.
Verdict_grace(a_hb, T) == IF a_hb > T + 1 THEN "Dead" ELSE "Alive"
Verdict_nonstrict(a_hb, T) == IF a_hb >= T THEN "Dead" ELSE "Alive"

\* step, lines 97-101: the verdict for a valid age
Verdict(a_hb, T) == IF a_hb > T THEN "Dead" ELSE "Alive"

\* Faulty variant of Evidence: only the first heartbeat recorded.
Evidence_firstOnly(m, now, hb) ==
    IF hb = "Seen" /\ ~m.have_hb
    THEN [m EXCEPT !.last_hb = now, !.have_hb = TRUE]
    ELSE m

\* step, lines 72-75: the evidence update
Evidence(m, now, hb) ==
    IF hb = "Seen" THEN [m EXCEPT !.last_hb = now, !.have_hb = TRUE] ELSE m

\* Faulty variants of NoEvidencePath: Dead without a fault once any time has
\* passed since init, and in_step not released on the Unknown exit.
NoEvidencePath_deadline(m, now) ==
    LET a_init == age_u64(now, m.t_init)
    IN  IF ~age_valid(a_init)
        THEN [m EXCEPT !.fault_time = TRUE, !.state = "Dead", !.in_step = FALSE]
        ELSE [m EXCEPT !.state = IF a_init > 0 THEN "Dead" ELSE "Unknown",
                       !.in_step = FALSE]
NoEvidencePath_keepsGuard(m, now) ==
    LET a_init == age_u64(now, m.t_init)
    IN  IF ~age_valid(a_init)
        THEN [m EXCEPT !.fault_time = TRUE, !.state = "Dead", !.in_step = FALSE]
        ELSE [m EXCEPT !.state = "Unknown"]

\* step, lines 77-87: no heartbeat recorded yet
NoEvidencePath(m, now) ==
    LET a_init == age_u64(now, m.t_init)
    IN  IF ~age_valid(a_init)
        THEN [m EXCEPT !.fault_time = TRUE, !.state = "Dead", !.in_step = FALSE]
        ELSE [m EXCEPT !.state = "Unknown", !.in_step = FALSE]

\* Faulty variants of EvidencePath: the time fault latched without forcing
\* Dead, and the age never validated.
EvidencePath_faultKeepsState(m, now, T) ==
    LET a_hb == age_u64(now, m.last_hb)
    IN  IF ~age_valid(a_hb)
        THEN [m EXCEPT !.fault_time = TRUE, !.in_step = FALSE]
        ELSE [m EXCEPT !.state = Verdict(a_hb, T), !.in_step = FALSE]
EvidencePath_unchecked(m, now, T) ==
    [m EXCEPT !.state = Verdict(age_u64(now, m.last_hb), T), !.in_step = FALSE]

\* step, lines 89-103: a heartbeat has been recorded
EvidencePath(m, now, T) ==
    LET a_hb == age_u64(now, m.last_hb)
    IN  IF ~age_valid(a_hb)
        THEN [m EXCEPT !.fault_time = TRUE, !.state = "Dead", !.in_step = FALSE]
        ELSE [m EXCEPT !.state = Verdict(a_hb, T), !.in_step = FALSE]

\* Faulty variant of Body: the age taken before the evidence is recorded.
Body_lateEvidence(m, now, hb, T) ==
    LET r == IF ~m.have_hb THEN NoEvidencePath(m, now) ELSE EvidencePath(m, now, T)
    IN  Evidence(r, now, hb)

\* Faulty variant of Body: the no-evidence path left out.
Body_alwaysEvidencePath(m, now, hb, T) ==
    EvidencePath(Evidence(m, now, hb), now, T)

\* step, lines 72-103: the transition body, run with in_step claimed
Body(m, now, hb, T) ==
    LET m1 == Evidence(m, now, hb)
    IN  IF ~m1.have_hb THEN NoEvidencePath(m1, now) ELSE EvidencePath(m1, now, T)

\* Faulty variant of step: no short-circuit on a latched fault.
step_noLatch(m, now, hb, T, W) ==
    IF m.in_step
    THEN [m EXCEPT !.fault_reentry = TRUE, !.state = "Dead"]
    ELSE Body([m EXCEPT !.in_step = TRUE], now, hb, T)

\* HbFsm::step run to completion by one caller; W is not read
step(m, now, hb, T, W) ==
    IF faulted(m) THEN m
    ELSE IF m.in_step
         THEN [m EXCEPT !.fault_reentry = TRUE, !.state = "Dead"]
         ELSE Body([m EXCEPT !.in_step = TRUE], now, hb, T)

----------------------------------------------------------------------------
\* One caller.

NewCall(now) == [op |-> "new", now |-> now, hb |-> "NotSeen", T |-> 0]
InitCall(now) == [op |-> "init", now |-> now, hb |-> "NotSeen", T |-> 0]
StepCall(now, hb, T) == [op |-> "step", now |-> now, hb |-> hb, T |-> T]

\* What the last call was.
IsStep == call.op = "step"
IsSeenStep == IsStep /\ call.hb = "Seen"
IsNotSeenStep == IsStep /\ call.hb = "NotSeen"

\* The frame of a thread that is in no step call.
NoFrame == [now |-> 0, hb |-> "NotSeen", T |-> 0]

Init ==
    /\ \E now \in Times :
          /\ hb_fsm = new(now)
          /\ call = NewCall(now)
    /\ last_seen = NoTime
    /\ pc = [t \in Threads |-> "idle"]
    /\ frame = [t \in Threads |-> NoFrame]
    /\ calls = [t \in Threads |-> 0]
    /\ before = new(0)

DoInit(now) ==
    /\ hb_fsm' = init(hb_fsm, now)
    /\ call' = InitCall(now)
    /\ UNCHANGED <<last_seen, pc, frame, calls, before>>

DoStep(now, hb, T, W) ==
    /\ hb_fsm' = step(hb_fsm, now, hb, T, W)
    /\ call' = StepCall(now, hb, T)
    /\ UNCHANGED <<last_seen, pc, frame, calls, before>>

Next ==
    \/ \E now \in Times : DoInit(now)
    \/ \E now \in Times, hb \in Hb, T \in Timeouts, W \in Waits : DoStep(now, hb, T, W)

Spec == Init /\ [][Next]_vars

----------------------------------------------------------------------------
\* One caller that keeps the stability premise: step calls only, now never
\* decreasing, one timeout throughout, and, once a Seen step has been made,
\* every step within timeout ticks of the most recent Seen step before it.

StableStep(now, hb, T, W) ==
    /\ IsStep => (now >= call.now /\ T = call.T)
    /\ last_seen # NoTime => now - last_seen <= T
    /\ hb_fsm' = step(hb_fsm, now, hb, T, W)
    /\ call' = StepCall(now, hb, T)
    /\ last_seen' = IF hb = "Seen" THEN now ELSE last_seen
    /\ UNCHANGED <<pc, frame, calls, before>>

NextStab ==
    \E now \in Times, hb \in Hb, T \in Timeouts, W \in Waits : StableStep(now, hb, T, W)

SpecStab == Init /\ [][NextStab]_vars

----------------------------------------------------------------------------
\* One caller whose calls are recorded with the instance they were made on
\* (as test_fuzz keeps old_state and old_last_hb, lib.rs:187-190): new, then
\* any sequence of init and step calls. wait_bound is not read by step and is
\* passed as 0.

HistInit(now) ==
    /\ hb_fsm' = init(hb_fsm, now)
    /\ call' = InitCall(now)
    /\ before' = hb_fsm
    /\ UNCHANGED <<last_seen, pc, frame, calls>>

HistStep(now, hb, T) ==
    /\ hb_fsm' = step(hb_fsm, now, hb, T, 0)
    /\ call' = StepCall(now, hb, T)
    /\ before' = hb_fsm
    /\ UNCHANGED <<last_seen, pc, frame, calls>>

NextHist ==
    \/ \E now \in Times : HistInit(now)
    \/ \E now \in Times, hb \in Hb, T \in Timeouts : HistStep(now, hb, T)

SpecHist == Init /\ [][NextHist]_vars

----------------------------------------------------------------------------
\* Several threads call step on one shared instance (the reentrancy_detection
\* test). The instance is shared without synchronisation other than in_step,
\* so every load and store of a field is a step of its own, in program order;
\* the swap of in_step is one atomic step. pc[t] is the line of pulse.rs that
\* thread t executes next. The unsynchronised accesses race; the interleavings
\* of program-order accesses modelled here are among the outcomes a build can
\* produce, so a state reached here is one the program can reach.

\* Arguments the threads pass: one timeout (the static T of the test), and a
\* now at the construction time 0, past the timeout with a valid age, and half
\* the range away.
ConcTimes == {0, Half - 1, Half}
ConcTimeouts == {1}

InitConc ==
    /\ hb_fsm = new(0)
    /\ call = NewCall(0)
    /\ last_seen = NoTime
    /\ pc = [t \in Threads |-> "idle"]
    /\ frame = [t \in Threads |-> NoFrame]
    /\ calls = [t \in Threads |-> 0]
    /\ before = new(0)

\* Thread t moves to line l; on "idle" its call has returned.
Goto(t, l) ==
    /\ pc' = [pc EXCEPT ![t] = l]
    /\ frame' = IF l = "idle" THEN [frame EXCEPT ![t] = NoFrame] ELSE frame
    /\ UNCHANGED <<call, last_seen, calls, before>>

\* Thread t stores v to field f of the instance.
Store(f, v) == hb_fsm' = [hb_fsm EXCEPT ![f] = v]

\* lib.rs:147-151: thread t starts its next step call. The arguments are not
\* read before line 72, so the frame is filled in where the guard is passed.
Call(t) ==
    /\ pc[t] = "idle"
    /\ calls[t] < MaxCalls
    /\ pc' = [pc EXCEPT ![t] = "L62"]
    /\ calls' = [calls EXCEPT ![t] = @ + 1]
    /\ UNCHANGED <<hb_fsm, call, last_seen, frame, before>>

\* line 62, faulted(): load fault_time
CheckFaultTime(t) ==
    /\ pc[t] = "L62"
    /\ Goto(t, IF hb_fsm.fault_time THEN "idle" ELSE "L62b")
    /\ UNCHANGED hb_fsm

\* line 62, faulted(): load fault_reentry
CheckFaultReentry(t) ==
    /\ pc[t] = "L62b"
    /\ Goto(t, IF hb_fsm.fault_reentry THEN "idle" ELSE "L66")
    /\ UNCHANGED hb_fsm

\* Faulty variant of SwapInStep: the flag set without testing what it held.
SwapInStep_noTest(t, now, hb, T, W) ==
    /\ pc[t] = "L66"
    /\ Store("in_step", TRUE)
    /\ pc' = [pc EXCEPT ![t] = IF hb = "Seen" THEN "L73" ELSE "L77"]
    /\ frame' = [frame EXCEPT ![t] = [now |-> now, hb |-> hb, T |-> T]]
    /\ UNCHANGED <<call, last_seen, calls, before>>

\* line 66: in_step.swap(true), one atomic read-modify-write; a thread that
\* finds the flag clear goes on with its arguments and the branch on hb of
\* line 72
SwapInStep(t, now, hb, T, W) ==
    /\ pc[t] = "L66"
    /\ Store("in_step", TRUE)
    /\ IF hb_fsm.in_step
       THEN Goto(t, "L67")
       ELSE /\ pc' = [pc EXCEPT ![t] = IF hb = "Seen" THEN "L73" ELSE "L77"]
            /\ frame' = [frame EXCEPT ![t] = [now |-> now, hb |-> hb, T |-> T]]
            /\ UNCHANGED <<call, last_seen, calls, before>>

\* line 67
SetFaultReentry(t) ==
    /\ pc[t] = "L67"
    /\ Store("fault_reentry", TRUE)
    /\ Goto(t, "L68")

\* lines 68-69
ReentryDead(t) ==
    /\ pc[t] = "L68"
    /\ Store("state", "Dead")
    /\ Goto(t, "idle")

\* line 73
StoreLastHb(t) ==
    /\ pc[t] = "L73"
    /\ Store("last_hb", frame[t].now)
    /\ Goto(t, "L74")

\* line 74
StoreHaveHb(t) ==
    /\ pc[t] = "L74"
    /\ Store("have_hb", TRUE)
    /\ Goto(t, "L77")

\* line 77: load have_hb
LoadHaveHb(t) ==
    /\ pc[t] = "L77"
    /\ Goto(t, IF ~hb_fsm.have_hb THEN "L78" ELSE "L89")
    /\ UNCHANGED hb_fsm

\* lines 78-79: load t_init, compute and validate a_init
AgeInit(t) ==
    /\ pc[t] = "L78"
    /\ Goto(t, IF ~age_valid(age_u64(frame[t].now, hb_fsm.t_init)) THEN "L80" ELSE "L83")
    /\ UNCHANGED hb_fsm

\* line 80
NoEvFaultTime(t) ==
    /\ pc[t] = "L80"
    /\ Store("fault_time", TRUE)
    /\ Goto(t, "L81")

\* line 81
NoEvDead(t) ==
    /\ pc[t] = "L81"
    /\ Store("state", "Dead")
    /\ Goto(t, "L85")

\* line 83
NoEvUnknown(t) ==
    /\ pc[t] = "L83"
    /\ Store("state", "Unknown")
    /\ Goto(t, "L85")

\* lines 85-86
NoEvRelease(t) ==
    /\ pc[t] = "L85"
    /\ Store("in_step", FALSE)
    /\ Goto(t, "idle")

\* lines 89-90 and 97: load last_hb, compute and validate a_hb, compare with T
AgeHb(t) ==
    /\ pc[t] = "L89"
    /\ LET a_hb == age_u64(frame[t].now, hb_fsm.last_hb)
       IN  Goto(t, IF ~age_valid(a_hb) THEN "L91"
                   ELSE IF Verdict(a_hb, frame[t].T) = "Dead" THEN "L98" ELSE "L100")
    /\ UNCHANGED hb_fsm

\* line 91
HbFaultTime(t) ==
    /\ pc[t] = "L91"
    /\ Store("fault_time", TRUE)
    /\ Goto(t, "L92")

\* line 92
HbFaultDead(t) ==
    /\ pc[t] = "L92"
    /\ Store("state", "Dead")
    /\ Goto(t, "L93")

\* lines 93-94
HbFaultRelease(t) ==
    /\ pc[t] = "L93"
    /\ Store("in_step", FALSE)
    /\ Goto(t, "idle")

\* line 98
TimeoutDead(t) ==
    /\ pc[t] = "L98"
    /\ Store("state", "Dead")
    /\ Goto(t, "L103")

\* line 100
SetAlive(t) ==
    /\ pc[t] = "L100"
    /\ Store("state", "Alive")
    /\ Goto(t, "L103")

\* Faulty variant of Release: the return taken without the store of line 103.
Release_keepsGuard(t) ==
    /\ pc[t] = "L103"
    /\ Goto(t, "idle")
    /\ UNCHANGED hb_fsm

\* lines 103-104
Release(t) ==
    /\ pc[t] = "L103"
    /\ Store("in_step", FALSE)
    /\ Goto(t, "idle")

NextConc ==
    \E t \in Threads :
        \/ Call(t)
        \/ CheckFaultTime(t)
        \/ CheckFaultReentry(t)
        \/ \E now \in ConcTimes, hb \in Hb, T \in ConcTimeouts, W \in Waits :
              SwapInStep(t, now, hb, T, W)
        \/ SetFaultReentry(t)
        \/ ReentryDead(t)
        \/ StoreLastHb(t)
        \/ StoreHaveHb(t)
        \/ LoadHaveHb(t)
        \/ AgeInit(t)
        \/ NoEvFaultTime(t)
        \/ NoEvDead(t)
        \/ NoEvUnknown(t)
        \/ NoEvRelease(t)
        \/ AgeHb(t)
        \/ HbFaultTime(t)
        \/ HbFaultDead(t)
        \/ HbFaultRelease(t)
        \/ TimeoutDead(t)
        \/ SetAlive(t)
        \/ Release(t)

SpecConc == InitConc /\ [][NextConc]_vars

----------------------------------------------------------------------------
\* Properties of one caller (Spec).

\* Elapsed ticks from the recorded heartbeat to the now of the last call, on
\* the modular clock.
CallAge == (call.now - hb_fsm.last_hb) % Modulus

TypeOK ==
    /\ hb_fsm.state \in State
    /\ hb_fsm.t_init \in Times
    /\ hb_fsm.last_hb \in Times
    /\ hb_fsm.have_hb \in BOOLEAN
    /\ hb_fsm.fault_time \in BOOLEAN
    /\ hb_fsm.fault_reentry \in BOOLEAN
    /\ hb_fsm.in_step \in BOOLEAN

\* C2 (invariant I2): after new and after every init or step call of one
\* caller, a faulted detector is Dead.
C2_FaultImpliesDead ==
    faulted(hb_fsm) => hb_fsm.state = "Dead"

\* A step call has latched the time fault.
C2_Witness ==
    IsStep /\ hb_fsm.fault_time /\ hb_fsm.state = "Dead"

\* C3 (invariant I1): after new and after every init or step call of one
\* caller, Alive implies that a heartbeat has been recorded.
C3_AliveImpliesEvidence ==
    hb_fsm.state = "Alive" => hb_fsm.have_hb

\* A NotSeen step has left the detector Alive on the evidence of an earlier
\* heartbeat.
C3_Witness ==
    IsNotSeenStep /\ hb_fsm.state = "Alive" /\ hb_fsm.have_hb

C5_Soundness ==
    IsStep =>
        /\ hb_fsm.state = "Alive" =>
              /\ CallAge <= call.T
              /\ call.now - hb_fsm.last_hb <= call.T
        /\ (call.hb = "NotSeen" /\ hb_fsm.have_hb /\ CallAge > call.T) =>
              hb_fsm.state = "Dead"

\* A NotSeen step past the timeout, with a valid age and no fault, has left
\* the detector Dead.
C5_Witness ==
    /\ IsNotSeenStep
    /\ hb_fsm.have_hb
    /\ ~faulted(hb_fsm)
    /\ CallAge > call.T
    /\ hb_fsm.state = "Dead"

\* The step being taken is a NotSeen step that follows a Seen step at t0 =
\* call.now made on a detector that was not faulted, at `age` ticks after t0.
BoundaryStep(age) ==
    /\ IsSeenStep
    /\ ~faulted(hb_fsm)
    /\ call'.op = "step"
    /\ call'.hb = "NotSeen"
    /\ call'.now = (call.now + age) % Modulus

\* C6 as claimed (boundary, for every timeout T): age T-1 yields Alive, age
\* exactly T yields Alive, age T+1 yields Dead.
C6_BoundaryAnyTimeout ==
    [][\A T \in Timeouts :
          call'.T = T =>
              /\ (T >= 1 /\ BoundaryStep(T - 1)) => hb_fsm'.state = "Alive"
              /\ BoundaryStep(T) => hb_fsm'.state = "Alive"
              /\ (T + 1 < Modulus /\ BoundaryStep(T + 1)) => hb_fsm'.state = "Dead"
      ]_vars

\* C6 as amended (boundary, for every timeout T below the half range): age
\* T-1 yields Alive, age exactly T yields Alive, age T+1 yields Dead; for a
\* timeout of the half range or more, age exactly T is an invalid age and
\* yields Dead with the time fault.
C6_Boundary ==
    [][\A T \in Timeouts :
          call'.T = T =>
              /\ (T < Half /\ T >= 1 /\ BoundaryStep(T - 1)) => hb_fsm'.state = "Alive"
              /\ (T < Half /\ BoundaryStep(T)) => hb_fsm'.state = "Alive"
              /\ (T < Half /\ BoundaryStep(T + 1)) => hb_fsm'.state = "Dead"
              /\ (T >= Half /\ BoundaryStep(T)) =>
                    hb_fsm'.state = "Dead" /\ hb_fsm'.fault_time
      ]_vars

\* A NotSeen step at age exactly T >= 1, T below the half range, has left the
\* detector Alive.
C6_Witness ==
    /\ IsNotSeenStep
    /\ hb_fsm.have_hb
    /\ call.T >= 1
    /\ call.T < Half
    /\ CallAge = call.T
    /\ hb_fsm.state = "Alive"

\* C8 (liveness of polling): on a detector with evidence, a NotSeen step
\* whose elapsed age now - last_hb exceeds the timeout leaves it Dead, and a
\* further NotSeen step with a greater now and the same timeout leaves it
\* Dead again.
C8_PollingReachesDead ==
    [][(hb_fsm.have_hb /\ call'.op = "step" /\ call'.hb = "NotSeen") =>
          /\ call'.now - hb_fsm.last_hb > call'.T => hb_fsm'.state = "Dead"
          /\ ( /\ IsNotSeenStep
               /\ call.now - hb_fsm.last_hb > call.T
               /\ call'.T = call.T
               /\ call'.now > call.now ) =>
                  hb_fsm.state = "Dead" /\ hb_fsm'.state = "Dead"
      ]_vars

\* Polling has crossed the deadline: a NotSeen step past it, with a valid age
\* and no fault, has left the detector Dead.
C8_Witness ==
    /\ IsNotSeenStep
    /\ hb_fsm.have_hb
    /\ ~faulted(hb_fsm)
    /\ call.now - hb_fsm.last_hb > call.T
    /\ call.now - hb_fsm.last_hb < Half
    /\ call.T >= 1
    /\ hb_fsm.state = "Dead"

\* The step being taken is made on a detector with evidence and no fault, and
\* its now lies so far behind the recorded heartbeat that the age wraps into
\* the upper half of the range.
CorruptClockStep ==
    /\ call'.op = "step"
    /\ ~faulted(hb_fsm)
    /\ hb_fsm.have_hb
    /\ call'.now < hb_fsm.last_hb
    /\ (call'.now - hb_fsm.last_hb) % Modulus >= Half

\* C9 as claimed (clock-corruption detection): any such step yields Dead and
\* faulted.
C9_CorruptClockAnyStep ==
    [][CorruptClockStep => (hb_fsm'.state = "Dead" /\ faulted(hb_fsm'))]_vars

\* C9 as amended: such a step with NotSeen evidence yields Dead and faulted
\* (with Seen evidence the step records now as the heartbeat first, finds age
\* 0, and yields Alive without a fault).
C9_CorruptClock ==
    [][CorruptClockStep =>
          /\ call'.hb = "NotSeen" =>
                hb_fsm'.state = "Dead" /\ hb_fsm'.fault_time
          /\ call'.hb = "Seen" =>
                hb_fsm'.state = "Alive" /\ ~faulted(hb_fsm')
      ]_vars

\* A NotSeen step behind the recorded heartbeat has latched the time fault.
C9_Witness ==
    /\ IsNotSeenStep
    /\ hb_fsm.have_hb
    /\ call.now < hb_fsm.last_hb
    /\ CallAge >= Half
    /\ hb_fsm.fault_time
    /\ hb_fsm.state = "Dead"

----------------------------------------------------------------------------
\* Properties of the stability driver (SpecStab).

\* C7 as claimed (stability): under the stability premise, from the first
\* Seen step on, the state is never Dead after any step.
C7_StabilityAsClaimed ==
    last_seen # NoTime => hb_fsm.state # "Dead"

\* C7 as amended: under the stability premise with a timeout below the half
\* range, from the first Seen step on, the state is never Dead after any step,
\* provided that first Seen step was made on a detector with no latched fault
\* (it is then the step that records the first evidence).
C7_Stability ==
    (last_seen # NoTime /\ call.T < Half /\ hb_fsm.have_hb) =>
        /\ hb_fsm.state # "Dead"
        /\ ~faulted(hb_fsm)
        /\ hb_fsm.last_hb = last_seen

\* A NotSeen step exactly timeout ticks after the most recent Seen step, the
\* timeout at least 1, has left the detector Alive.
C7_Witness ==
    /\ IsNotSeenStep
    /\ last_seen # NoTime
    /\ hb_fsm.have_hb
    /\ call.T >= 1
    /\ call.T < Half
    /\ call.now - last_seen = call.T
    /\ hb_fsm.state = "Alive"

----------------------------------------------------------------------------
\* Properties of the threads sharing one instance (SpecConc).

\* No step call is in flight.
AllIdle == \A t \in Threads : pc[t] = "idle"

\* Every thread has made all its calls and the last one has returned.
AllDone == AllIdle /\ \A t \in Threads : calls[t] = MaxCalls

\* C1 (fail-safe under concurrent misuse): once a step call has detected
\* reentry and every step call in flight has returned, the detector is faulted
\* and Dead.
C1_FailSafe ==
    (AllIdle /\ hb_fsm.fault_reentry) =>
        (faulted(hb_fsm) /\ hb_fsm.state = "Dead")

\* C10 (reentrancy detection): when the threads have made all their step
\* calls on the shared instance, the detector is faulted and Dead.
C10_EndsFaultedDead ==
    AllDone => (faulted(hb_fsm) /\ hb_fsm.state = "Dead")

\* C11 (the guard is never left stuck): whenever no step call is in progress,
\* in_step is false; with one caller no call is ever in progress between
\* actions, so there it says in_step is false after every call.
C11_GuardReleased ==
    AllIdle => ~hb_fsm.in_step

\* A reentry fault has been raised, every call has returned, and the guard is
\* clear.
C11_Witness ==
    /\ AllIdle
    /\ hb_fsm.fault_reentry
    /\ ~hb_fsm.in_step
    /\ \A t \in Threads : calls[t] >= 1

\* The lines between the successful swap of in_step and its release.
BodyLines ==
    {"L73", "L74", "L77", "L78", "L80", "L81", "L83", "L85",
     "L89", "L91", "L92", "L93", "L98", "L100", "L103"}
InBody(t) == pc[t] \in BodyLines

\* C18 (mutual exclusion of the transition body): at most one step call at a
\* time is between its successful swap of in_step and its release, and
\* in_step is set while one is.
C18_MutualExclusion ==
    /\ \A t, u \in Threads : (InBody(t) /\ InBody(u)) => t = u
    /\ (\E t \in Threads : InBody(t)) => hb_fsm.in_step

\* One call is in the transition body while another, having found in_step
\* set, is on the reentry path.
C18_Witness ==
    \E t, u \in Threads :
        /\ InBody(t)
        /\ pc[u] \in {"L67", "L68"}

----------------------------------------------------------------------------
\* Properties of the recording caller (SpecHist): `before` is the instance the
\* last call was made on, hb_fsm the instance it left.

\* C12 (recovery): a step with Seen evidence made on a detector that is Dead
\* and not faulted leaves it Alive.
C12_Recovery ==
    (IsSeenStep /\ ~faulted(before) /\ before.state = "Dead") =>
        hb_fsm.state = "Alive"

\* A detector that had timed out (Dead, with evidence, no fault) has taken a
\* Seen step and is Alive.
C12_Witness ==
    /\ IsSeenStep
    /\ before.have_hb
    /\ ~faulted(before)
    /\ before.state = "Dead"
    /\ hb_fsm.state = "Alive"

\* C13 (reset): init(now) leaves every field as new(now) constructs it,
\* whatever the instance held, so every later step acts as on a fresh
\* detector.
C13_Reset ==
    call.op = "init" => hb_fsm = new(call.now)

\* init has reset a detector that had evidence and a latched time fault, with
\* a now other than its old init time.
C13_Witness ==
    /\ call.op = "init"
    /\ before.fault_time
    /\ before.have_hb
    /\ before.state = "Dead"
    /\ call.now # before.t_init
    /\ hb_fsm = new(call.now)

\* C14 as claimed: a NotSeen step whose now lies behind last_hb by more than
\* half the range latches fault_time and yields Dead, faulted.
C14_BackwardJumpAsClaimed ==
    (IsNotSeenStep /\ before.have_hb /\ before.last_hb - call.now > Half) =>
        /\ hb_fsm.fault_time
        /\ hb_fsm.state = "Dead"
        /\ faulted(hb_fsm)

\* C14 (age validity against backward clock jumps): a NotSeen step on a
\* detector with evidence whose now lies behind last_hb by d ticks latches
\* fault_time and yields Dead, faulted, when 1 <= d <= half the range; when d
\* is more than half the range the wrapping age is Modulus - d, a valid age,
\* and a non-faulted detector gets the unfaulted timeout verdict on it.
C14_BackwardJump ==
    (IsNotSeenStep /\ before.have_hb /\ call.now < before.last_hb) =>
        LET d == before.last_hb - call.now
        IN  IF d <= Half
            THEN /\ hb_fsm.fault_time
                 /\ hb_fsm.state = "Dead"
                 /\ faulted(hb_fsm)
            ELSE ~faulted(before) =>
                    /\ ~faulted(hb_fsm)
                    /\ hb_fsm.state = IF Modulus - d > call.T THEN "Dead" ELSE "Alive"

\* A non-faulted detector with evidence has taken a NotSeen step whose now is
\* exactly half the range behind last_hb, and the time fault is latched.
C14_Witness ==
    /\ IsNotSeenStep
    /\ before.have_hb
    /\ ~faulted(before)
    /\ before.last_hb - call.now = Half
    /\ hb_fsm.fault_time
    /\ hb_fsm.state = "Dead"

\* The ticks elapsed from last_hb to the now of the last call when the counter
\* wrapped in between.
WrappedElapsed == call.now + Modulus - before.last_hb

\* The last call is a NotSeen step on a detector with evidence, made after the
\* counter wrapped, with fewer than half the range of ticks elapsed.
WrappedStep ==
    /\ IsNotSeenStep
    /\ before.have_hb
    /\ call.now < before.last_hb
    /\ WrappedElapsed < Half

\* C15 as claimed: whatever the detector held, the step after a wraparound
\* computes the elapsed ticks, raises no fault and gives Alive iff they are
\* within the timeout.
C15_WraparoundAsClaimed ==
    WrappedStep =>
        /\ age_u64(call.now, before.last_hb) = WrappedElapsed
        /\ ~faulted(hb_fsm)
        /\ hb_fsm.state = IF WrappedElapsed <= call.T THEN "Alive" ELSE "Dead"

\* C15 (age arithmetic under wraparound): on a non-faulted detector, a NotSeen
\* step made after the counter wrapped past its maximum since the last Seen
\* step, with d < half the range ticks truly elapsed, computes age = d, raises
\* no fault and leaves Alive iff d <= timeout, else Dead.
C15_Wraparound ==
    (WrappedStep /\ ~faulted(before)) =>
        /\ age_u64(call.now, before.last_hb) = WrappedElapsed
        /\ ~faulted(hb_fsm)
        /\ hb_fsm.state = IF WrappedElapsed <= call.T THEN "Alive" ELSE "Dead"

\* A non-faulted detector has taken a NotSeen step after a wraparound with the
\* elapsed ticks exactly at the timeout, and is Alive.
C15_Witness ==
    /\ WrappedStep
    /\ ~faulted(before)
    /\ WrappedElapsed = call.T
    /\ hb_fsm.state = "Alive"

\* C16 (no-evidence path): after every call of a serial sequence the state is
\* Unknown iff no heartbeat is recorded and the detector is not faulted; a
\* NotSeen step on a non-faulted detector without evidence leaves Unknown
\* whatever the timeout, and Dead only with fault_time latched, which happens
\* iff now - t_init modulo the range is at least half of it; a step never
\* removes recorded evidence.
C16_NoEvidencePath ==
    /\ (hb_fsm.state = "Unknown") <=> (~hb_fsm.have_hb /\ ~faulted(hb_fsm))
    /\ (IsNotSeenStep /\ ~before.have_hb /\ ~faulted(before)) =>
          IF (call.now - before.t_init) % Modulus >= Half
          THEN hb_fsm.state = "Dead" /\ hb_fsm.fault_time
          ELSE hb_fsm.state = "Unknown" /\ ~faulted(hb_fsm)
    /\ (IsStep /\ before.have_hb) => (hb_fsm.have_hb /\ hb_fsm.state # "Unknown")

\* A detector that never saw a heartbeat has taken a NotSeen step with more
\* time elapsed since init than the timeout, and is still Unknown.
C16_Witness ==
    /\ IsNotSeenStep
    /\ ~before.have_hb
    /\ ~faulted(before)
    /\ (call.now - before.t_init) % Modulus > call.T
    /\ hb_fsm.state = "Unknown"
    /\ ~faulted(hb_fsm)

\* C17: a Seen step on a non-faulted detector leaves Alive, last_hb = now and
\* have_hb set, and raises no fault, for every now and every timeout.
C17_SeenStep ==
    (IsSeenStep /\ ~faulted(before)) =>
        /\ hb_fsm.state = "Alive"
        /\ hb_fsm.last_hb = call.now
        /\ hb_fsm.have_hb
        /\ ~hb_fsm.fault_time
        /\ ~faulted(hb_fsm)

\* A Seen step with timeout 0 and a now earlier than both the init time and
\* the previous heartbeat has left a non-faulted detector Alive.
C17_Witness ==
    /\ IsSeenStep
    /\ ~faulted(before)
    /\ before.have_hb
    /\ call.now < before.last_hb
    /\ call.now < before.t_init
    /\ call.T = 0
    /\ hb_fsm.state = "Alive"
    /\ hb_fsm.last_hb = call.now

\* C19 (no false reentry fault): after every call of one caller fault_reentry
\* is clear and in_step is false, so every step finds in_step false and a
\* faulted detector is one with fault_time latched.
C19_NoFalseReentry ==
    /\ ~hb_fsm.fault_reentry
    /\ ~hb_fsm.in_step
    /\ faulted(hb_fsm) => hb_fsm.fault_time

\* A step on a detector that had already taken a step and was not faulted
\* has run the body, and no reentry fault is latched.
C19_Witness ==
    /\ IsStep
    /\ ~faulted(before)
    /\ before.state # "Unknown"
    /\ hb_fsm.last_hb = call.now
    /\ hb_fsm.have_hb
    /\ ~hb_fsm.fault_reentry
    /\ ~hb_fsm.in_step

====
